---- MODULE Spec2Model ----
(***************************************************************************)
(* State-machine model of the hand-written glue of the source-separation   *)
(* repository: the checkpoint/resume logic of the trainers, the segment    *)
(* indexing of the WSJ0 and MUSDB18 datasets, the Segment1d /              *)
(* OverlapAdd1d index arithmetic, the padding and the hyperparameter       *)
(* round trips of DPTNet and OpenUnmix, and the threshold weighting of     *)
(* IdealMaskSpectrogramDataset.                                            *)
(***************************************************************************)
EXTENDS Integers, Sequences, FiniteSets, Bags, TLC

VARIABLES
    \* ---- trainers (adhoc_driver.py) ----
    kind,        \* which trainer class the training script instantiates
    args,        \* the parsed command line of the current process
    pc,          \* position of the current training process
    self,        \* the trainer object's fields
    epoch,       \* loop variable of run()
    last_pth,    \* model_dir/last.pth: <<>> (absent) or <<package>>
    best_pth,    \* model_dir/best.pth: <<>> (absent) or <<package>>
    ran,         \* "[Epoch e/..]" lines printed by the current process (epoch indices)
    lastSaved,   \* epoch index of the most recent save_model to last.pth (-1: none)
    completed,   \* ORPITTrainer: save_model calls since the last fresh construction
    writes,      \* torch.save calls of the current process
    \* ---- WSJ0 datasets (egs/wsj0-mix/common/src/dataset.py) ----
    wav,         \* the list file: wav[i] is the number of samples of utterance i
    ds,          \* the dataset class and its constructor arguments
    json_data,   \* self.json_data
    ds_pc,       \* position of the constructor / dataset life cycle
    ds_line,     \* next line of the list file to read
    item,        \* what the last __getitem__ returned
    \* ---- MUSDB18 datasets (egs/musdb18/cunet/src/adhoc_dataset.py) ----
    mus,         \* the dataset class and its constructor arguments
    track_samples, \* the validation / training tracks: number of frames of each
    tracks,      \* self.tracks
    mus_json,    \* self.json_data
    mus_pc,      \* position of the constructor / dataset life cycle
    songID,      \* loop variable of the constructor
    out,         \* what the last __getitem__ did
    \* ---- Segment1d / OverlapAdd1d (src/models/transform.py) ----
    layer,       \* the module: its class, self.chunk_size, self.hop_size
    input,       \* the argument of forward
    xt,          \* the local tensor x of forward
    output,      \* the tensor forward returns
    fpc,         \* position in forward
    \* ---- DPTNet and its Separator (src/models/dptnet.py), OpenUnmix (src/models/umx.py) ----
    ctor,        \* the arguments DPTNet(...) / OpenUnmix(...) is constructed with
    net,         \* the module: the fields its constructor set, or what it raised
    npc,         \* position in forward / in the save-and-rebuild script
    sig,         \* DPTNet.extract_latent: T, the paddings, length of the current tensor
    sep,         \* Separator.forward: n_frames, the paddings, shape of the current tensor
    model_path,  \* the checkpoint file: <<>> (absent) or <<package>>
    rebuilt,     \* the module build_model returned, or what it raised
    \* ---- IdealMaskSpectrogramDataset (egs/wsj0-mix/common/src/dataset.py) ----
    threshold,   \* self.threshold
    mixture_amplitude, \* amplitude of each time-frequency bin of the item's mixture
    local_threshold, \* the local threshold of __getitem__
    threshold_weight,  \* the threshold_weight __getitem__ returns
    mask_pc      \* position in __getitem__

trainerVars == <<kind, args, pc, self, epoch, last_pth, best_pth, ran, lastSaved, completed,
                 writes>>

wsjVars == <<wav, ds, json_data, ds_pc, ds_line, item>>

musdbVars == <<mus, track_samples, tracks, mus_json, mus_pc, songID, out>>

transformVars == <<layer, input, xt, output, fpc>>

dptnetVars == <<ctor, net, npc, sig, sep, model_path, rebuilt>>

maskVars == <<threshold, mixture_amplitude, local_threshold, threshold_weight, mask_pc>>

vars == <<trainerVars, wsjVars, musdbVars, transformVars, dptnetVars, maskVars>>

\* the variables each subsystem leaves alone
notTrainer == <<wsjVars, musdbVars, transformVars, dptnetVars, maskVars>>
notWsj == <<trainerVars, musdbVars, transformVars, dptnetVars, maskVars>>
notMusdb == <<trainerVars, wsjVars, transformVars, dptnetVars, maskVars>>
notTransform == <<trainerVars, wsjVars, musdbVars, dptnetVars, maskVars>>
notDptnet == <<trainerVars, wsjVars, musdbVars, transformVars, maskVars>>
notMask == <<trainerVars, wsjVars, musdbVars, transformVars, dptnetVars>>

(***************************************************************************)
(* Bounds of the model                                                     *)
(***************************************************************************)
MaxEpochs == 2
\* WSJ0 datasets: lines of the list file, samples per (short) utterance,
\* window length, number of sources
MaxLines == 2
MaxT == 5
MaxSamples == 2
MaxSources == 2
\* MUSDB18 datasets: tracks in validation.txt, frames per track
MaxTracks == 2
MaxTrackSamples == 3
\* Segment1d / OverlapAdd1d: tensor sizes
MaxBatch == 2
MaxFeatures == 2
MaxFrames == 5
MaxChunk == 3
MaxHop == 3
MaxS == 3
\* DPTNet: kernel size of the encoder, samples of the input signal
MaxKernel == 4
MaxSignal == 8
\* OpenUnmix: frequency bins
MaxBins == 2
\* IdealMaskSpectrogramDataset: time-frequency bins of an item
MaxTFBins == 3

\* loss values returned by run_one_epoch (abstract floats; order matters only
\* for the best/previous comparison of the validation loss)
TrainLossValues == {0, 1}
ValidLossValues == {0, 1}

(***************************************************************************)
(* Trainers                                                                *)
(***************************************************************************)
\* an element of torch.empty(...) that was never written
Uninit == 0 - 1
\* float('infinity')
Infinity == 100
\* an attribute that was not assigned before the constructor raised
Unset == 0 - 2

Min(a, b) == IF a < b THEN a ELSE b
Max(a, b) == IF a > b THEN a ELSE b

\* torch.empty(self.epochs)
Empty(epochs) == [i \in 0 .. epochs - 1 |-> Uninit]

\* len(x[:n]) for a tensor x of length len and n >= 0
SliceLen(len, n) == Min(len, n)

\* self.train_loss[:n] = src[:n] ; defined when both slices have the same length
SliceAssignOk(dst, src, n) ==
    SliceLen(Cardinality(DOMAIN dst), n) = SliceLen(Cardinality(DOMAIN src), n)

SliceAssign(dst, src, n) ==
    [i \in DOMAIN dst |-> IF i < n THEN src[i] ELSE dst[i]]

\* python indexing x[i] with a possibly negative i
PyIndex(x, i) == IF i < 0 THEN x[i + Cardinality(DOMAIN x)] ELSE x[i]

\* the values a read of element v can produce (an uninitialised element is arbitrary)
ReadValues(v) == IF v = Uninit THEN ValidLossValues ELSE {v}

Exists(file) == Len(file) > 0

BlankSelf ==
    [epochs |-> Unset, start_epoch |-> Unset, train_loss |-> Empty(0), valid_loss |-> Empty(0),
     best_loss |-> Unset, prev_loss |-> Unset, no_improvement |-> Unset]

ArgsSet ==
    [epochs : 1 .. MaxEpochs, continue_from : {"", "last.pth", "best.pth"}, overwrite : {0, 1}]

\* the file args.continue_from names
ContinueFile(a) == IF a.continue_from = "last.pth" THEN last_pth ELSE best_pth

\* `if os.path.exists(model_path): if args.overwrite: ... else: raise ValueError`
OverwriteGuardIgnored(exists, overwrite) == FALSE
OverwriteGuardRaises(exists, overwrite) == exists /\ overwrite = 0

\* package['epoch'] = epoch + 1
SavedEpochOffByOne(e) == e
SavedEpoch(e) == e + 1

\* self.start_epoch = package['epoch']
ResumeStartEpochRestart(package) == 0
ResumeStartEpoch(package) == package.epoch

\* self.no_improvement = package['no_improvement']
ResumeNoImprovementReset(package) == 0
ResumeNoImprovement(package) == package.no_improvement

\* range(self.start_epoch, self.epochs): whether the loop body runs for `e`
InRangeInclusive(e, epochs) == e <= epochs
InRange(e, epochs) == e < epochs

Dead == {"none", "exit", "killed", "ValueError", "RuntimeError", "FileNotFoundError"}
Alive == {"main", "for", "trained", "judged"}

\* ORPITTrainer._reset(args)
ORPITReset(a) ==
    LET s0 == [BlankSelf EXCEPT !.epochs = a.epochs, !.train_loss = Empty(a.epochs)]
    IN  IF a.continue_from # ""
        THEN IF ~Exists(ContinueFile(a))
             THEN /\ pc' = "FileNotFoundError"
                  /\ self' = s0
             ELSE LET package == ContinueFile(a)[1]
                      start == ResumeStartEpoch(package)
                  IN  IF ~SliceAssignOk(s0.train_loss, package.train_loss, start)
                      THEN /\ pc' = "RuntimeError"
                           /\ self' = [s0 EXCEPT !.start_epoch = start]
                      ELSE /\ pc' = "main"
                           /\ self' = [s0 EXCEPT !.start_epoch = start,
                                          !.train_loss = SliceAssign(s0.train_loss, package.train_loss, start)]
        ELSE IF OverwriteGuardRaises(Exists(last_pth), a.overwrite)
             THEN /\ pc' = "ValueError"
                  /\ self' = s0
             ELSE /\ pc' = "main"
                  /\ self' = [s0 EXCEPT !.start_epoch = 0]

\* SingleTargetTrainer._reset(args)
SingleTargetReset(a) ==
    LET s0 == [BlankSelf EXCEPT !.epochs = a.epochs, !.train_loss = Empty(a.epochs),
                                !.valid_loss = Empty(a.epochs)]
    IN  IF a.continue_from # ""
        THEN IF ~Exists(ContinueFile(a))
             THEN /\ pc' = "FileNotFoundError"
                  /\ self' = s0
             ELSE LET package == ContinueFile(a)[1]
                      start == ResumeStartEpoch(package)
                  IN  IF \/ ~SliceAssignOk(s0.train_loss, package.train_loss, start)
                         \/ ~SliceAssignOk(s0.valid_loss, package.valid_loss, start)
                      THEN /\ pc' = "RuntimeError"
                           /\ self' = [s0 EXCEPT !.start_epoch = start]
                      ELSE LET tl == SliceAssign(s0.train_loss, package.train_loss, start)
                               vl == SliceAssign(s0.valid_loss, package.valid_loss, start)
                           IN  /\ pc' = "main"
                               /\ \E prev \in ReadValues(PyIndex(vl, start - 1)) :
                                    self' = [s0 EXCEPT !.start_epoch = start,
                                                !.train_loss = tl,
                                                !.valid_loss = vl,
                                                !.best_loss = package.best_loss,
                                                !.prev_loss = prev,
                                                !.no_improvement = ResumeNoImprovement(package)]
        ELSE IF OverwriteGuardRaises(Exists(best_pth), a.overwrite)
             THEN /\ pc' = "ValueError"
                  /\ self' = s0
             ELSE /\ pc' = "main"
                  /\ self' = [s0 EXCEPT !.start_epoch = 0,
                                 !.best_loss = Infinity,
                                 !.prev_loss = Infinity,
                                 !.no_improvement = 0]

\* train.py: args = parser.parse_args(); trainer = AdhocTrainer(..., args)
\* (the constructor calls _reset); a new process starts when none is running
Construct ==
    /\ pc \in Dead
    /\ \E a \in ArgsSet :
        /\ kind = "ORPIT" => a.continue_from # "best.pth"
        /\ args' = a
        /\ IF kind = "ORPIT" THEN ORPITReset(a) ELSE SingleTargetReset(a)
        /\ completed' = IF a.continue_from = "" /\ pc' = "main" THEN 0 ELSE completed
    /\ ran' = <<>>
    /\ writes' = 0
    /\ epoch' = Unset
    /\ UNCHANGED <<kind, last_pth, best_pth, lastSaved>>
    /\ UNCHANGED notTrainer

\* trainer.run(): entering the for loop
Run ==
    /\ pc = "main"
    /\ pc' = "for"
    /\ epoch' = self.start_epoch
    /\ UNCHANGED <<kind, args, self, last_pth, best_pth, ran, lastSaved, completed, writes>>
    /\ UNCHANGED notTrainer

\* the loop is exhausted: run() returns and the process ends
RunReturn ==
    /\ pc = "for"
    /\ ~InRange(epoch, self.epochs)
    /\ pc' = "exit"
    /\ UNCHANGED <<kind, args, self, epoch, last_pth, best_pth, ran, lastSaved, completed, writes>>
    /\ UNCHANGED notTrainer

\* ORPITTrainer.run, one iteration up to self.train_loss[epoch] = train_loss
ORPITRunOneEpoch ==
    /\ kind = "ORPIT"
    /\ pc = "for"
    /\ InRange(epoch, self.epochs)
    /\ \E train_loss \in TrainLossValues :
        self' = [self EXCEPT !.train_loss = [i \in DOMAIN @ |-> IF i = epoch THEN train_loss ELSE @[i]]]
    /\ ran' = Append(ran, epoch)
    /\ pc' = "trained"
    /\ UNCHANGED <<kind, args, epoch, last_pth, best_pth, lastSaved, completed, writes>>
    /\ UNCHANGED notTrainer

\* ORPITTrainer.save_model(epoch, model_path): the package written
ORPITPackage(e) == [epoch |-> SavedEpoch(e), train_loss |-> self.train_loss]

\* ORPITTrainer.run, rest of the iteration: save_model(epoch, ".../last.pth")
ORPITSaveModel ==
    /\ kind = "ORPIT"
    /\ pc = "trained"
    /\ last_pth' = <<ORPITPackage(epoch)>>
    /\ lastSaved' = epoch
    /\ completed' = completed + 1
    /\ writes' = writes + 1
    /\ epoch' = epoch + 1
    /\ pc' = "for"
    /\ UNCHANGED <<kind, args, self, best_pth, ran>>
    /\ UNCHANGED notTrainer

\* TrainerBase.run as inherited by SingleTargetTrainer: run_one_epoch and the
\* two loss assignments
SingleTargetRunOneEpoch ==
    /\ kind = "SingleTarget"
    /\ pc = "for"
    /\ InRange(epoch, self.epochs)
    /\ \E train_loss \in TrainLossValues, valid_loss \in ValidLossValues :
        self' = [self EXCEPT
                    !.train_loss = [i \in DOMAIN @ |-> IF i = epoch THEN train_loss ELSE @[i]],
                    !.valid_loss = [i \in DOMAIN @ |-> IF i = epoch THEN valid_loss ELSE @[i]]]
    /\ ran' = Append(ran, epoch)
    /\ pc' = "trained"
    /\ UNCHANGED <<kind, args, epoch, last_pth, best_pth, lastSaved, completed, writes>>
    /\ UNCHANGED notTrainer

\* TrainerBase.save_model: the package written
SingleTargetPackage(s, e) ==
    [epoch |-> SavedEpoch(e), train_loss |-> s.train_loss, valid_loss |-> s.valid_loss,
     best_loss |-> s.best_loss, no_improvement |-> s.no_improvement]

\* number of epochs without improvement after which run() breaks
Patience == 10

\* TrainerBase.run: best-loss bookkeeping, best.pth, early stopping, prev_loss
SingleTargetJudge ==
    /\ kind = "SingleTarget"
    /\ pc = "trained"
    /\ LET valid_loss == self.valid_loss[epoch]
       IN  IF valid_loss < self.best_loss
           THEN LET s1 == [self EXCEPT !.best_loss = valid_loss, !.no_improvement = 0]
                IN  /\ best_pth' = <<SingleTargetPackage(s1, epoch)>>
                    /\ writes' = writes + 1
                    /\ self' = [s1 EXCEPT !.prev_loss = valid_loss]
                    /\ pc' = "judged"
           ELSE IF valid_loss >= self.prev_loss
                THEN IF self.no_improvement + 1 >= Patience
                     THEN /\ self' = [self EXCEPT !.no_improvement = @ + 1]
                          /\ pc' = "exit"
                          /\ UNCHANGED <<best_pth, writes>>
                     ELSE /\ self' = [self EXCEPT !.no_improvement = @ + 1, !.prev_loss = valid_loss]
                          /\ pc' = "judged"
                          /\ UNCHANGED <<best_pth, writes>>
                ELSE /\ self' = [self EXCEPT !.no_improvement = 0, !.prev_loss = valid_loss]
                     /\ pc' = "judged"
                     /\ UNCHANGED <<best_pth, writes>>
    /\ UNCHANGED <<kind, args, epoch, last_pth, ran, lastSaved, completed>>
    /\ UNCHANGED notTrainer

\* TrainerBase.run: save_model(epoch, ".../last.pth")
SingleTargetSaveModel ==
    /\ kind = "SingleTarget"
    /\ pc = "judged"
    /\ last_pth' = <<SingleTargetPackage(self, epoch)>>
    /\ lastSaved' = epoch
    /\ writes' = writes + 1
    /\ epoch' = epoch + 1
    /\ pc' = "for"
    /\ UNCHANGED <<kind, args, self, best_pth, ran, completed>>
    /\ UNCHANGED notTrainer

\* the process is interrupted (Ctrl-C, job time limit): memory is lost, files stay
Interrupt ==
    /\ pc \in Alive
    /\ pc' = "killed"
    /\ self' = BlankSelf
    /\ epoch' = Unset
    /\ ran' = <<>>
    /\ writes' = 0
    /\ UNCHANGED <<kind, args, last_pth, best_pth, lastSaved, completed>>
    /\ UNCHANGED notTrainer

TrainerInit ==
    /\ kind \in {"ORPIT", "SingleTarget"}
    /\ args = [epochs |-> 1, continue_from |-> "", overwrite |-> 0]
    /\ pc = "none"
    /\ self = BlankSelf
    /\ epoch = Unset
    /\ last_pth = <<>>
    /\ best_pth = <<>>
    /\ ran = <<>>
    /\ lastSaved = 0 - 1
    /\ completed = 0
    /\ writes = 0

TrainerNext ==
    \/ Construct
    \/ Run
    \/ RunReturn
    \/ ORPITRunOneEpoch
    \/ ORPITSaveModel
    \/ SingleTargetRunOneEpoch
    \/ SingleTargetJudge
    \/ SingleTargetSaveModel
    \/ Interrupt

TrainerOff ==
    /\ kind = "ORPIT"
    /\ args = [epochs |-> 1, continue_from |-> "", overwrite |-> 0]
    /\ pc = "off"
    /\ self = BlankSelf
    /\ epoch = Unset
    /\ last_pth = <<>>
    /\ best_pth = <<>>
    /\ ran = <<>>
    /\ lastSaved = 0 - 1
    /\ completed = 0
    /\ writes = 0

(***************************************************************************)
(* WSJ0 datasets                                                           *)
(***************************************************************************)
\* python's None as an argument value
None == 0 - 3

\* WaveDataset.__init__(..., samples=32000, ...)
DefaultSamples == 32000

NoItem == [mixture |-> <<>>, sources |-> <<>>, segment_ID |-> <<>>]

\* lengths of the wav files: short ones, and one longer than the default window
WavLengths == 0 .. MaxT \cup {DefaultSamples + 1}

ListFiles == UNION {[1 .. n -> WavLengths] : n \in 0 .. MaxLines}

DatasetArgs ==
    {a \in [cls : {"WaveDataset", "WaveTrainDataset", "WaveEvalDataset"},
            samples : 1 .. MaxSamples,
            overlap : {None} \cup 0 .. MaxSamples,
            n_sources : 1 .. MaxSources,
            max_samples : {None} \cup 0 .. MaxSamples \cup {DefaultSamples}] :
        /\ a.overlap # None => a.overlap <= a.samples
        /\ a.cls = "WaveEvalDataset" => (a.samples = 1 /\ a.overlap = None)
        /\ a.cls # "WaveEvalDataset" => a.max_samples = None}

\* the samples / overlap arguments WaveDataset.__init__ runs with:
\* WaveEvalDataset calls super().__init__(wav_root, list_path, n_sources=n_sources)
CtorSamples == IF ds.cls = "WaveEvalDataset" THEN DefaultSamples ELSE ds.samples
CtorOverlapArg == IF ds.cls = "WaveEvalDataset" THEN None ELSE ds.overlap

\* if overlap is None: overlap = samples//2
Overlap(samples, overlap) == IF overlap = None THEN samples \div 2 ELSE overlap

\* if end_idx > T_total: break
PastEndInclusive(end_idx, T_total) == end_idx >= T_total
PastEnd(end_idx, T_total) == end_idx > T_total

\* for start_idx in range(0, T_total, samples - overlap): ... (step > 0)
RECURSIVE Segments(_, _, _, _)
Segments(start_idx, T_total, samples, step) ==
    IF start_idx >= T_total
    THEN <<>>
    ELSE LET end_idx == start_idx + samples
         IN  IF PastEnd(end_idx, T_total)
             THEN <<>>
             ELSE <<[start |-> start_idx, end |-> end_idx]>>
                  \o Segments(start_idx + step, T_total, samples, step)

\* the dict built for one window; data['sources'] keeps insertion order s1, s2, ...
Data(ID, n_sources, start_idx, end_idx) ==
    [sources |-> [source_idx \in 1 .. n_sources |->
                    [key |-> source_idx, path |-> <<"s", source_idx, ID>>,
                     start |-> start_idx, end |-> end_idx]],
     mixture |-> [path |-> <<"mix", ID>>, start |-> start_idx, end |-> end_idx],
     ID |-> ID]

\* WaveDataset.__init__: the body of `for line in f` for one line
WaveDatasetInitLine ==
    /\ ds_pc = "WaveDataset.__init__"
    /\ ds_line <= Len(wav)
    /\ LET ID == ds_line
           T_total == wav[ID]
           samples == CtorSamples
           step == samples - Overlap(samples, CtorOverlapArg)
       IN  IF step = 0
           THEN /\ ds_pc' = "ValueError"
                /\ UNCHANGED <<json_data, ds_line>>
           ELSE LET segs == IF step < 0 THEN <<>> ELSE Segments(0, T_total, samples, step)
                IN  /\ json_data' = json_data \o
                            [k \in 1 .. Len(segs) |-> Data(ID, ds.n_sources, segs[k].start, segs[k].end)]
                    /\ ds_line' = ds_line + 1
                    /\ UNCHANGED ds_pc
    /\ UNCHANGED <<wav, ds, item>>
    /\ UNCHANGED notWsj

\* WaveDataset.__init__ returns (WaveDataset, WaveTrainDataset)
WaveDatasetInitReturn ==
    /\ ds_pc = "WaveDataset.__init__"
    /\ ds_line > Len(wav)
    /\ ds.cls # "WaveEvalDataset"
    /\ ds_pc' = "ready"
    /\ UNCHANGED <<wav, ds, json_data, ds_line, item>>
    /\ UNCHANGED notWsj

\* WaveEvalDataset.__init__: after super().__init__ returned, self.json_data = []
WaveEvalDatasetClear ==
    /\ ds_pc = "WaveDataset.__init__"
    /\ ds_line > Len(wav)
    /\ ds.cls = "WaveEvalDataset"
    /\ json_data' = <<>>
    /\ ds_line' = 1
    /\ ds_pc' = "WaveEvalDataset.__init__"
    /\ UNCHANGED <<wav, ds, item>>
    /\ UNCHANGED notWsj

\* WaveEvalDataset.__init__: samples of one utterance
EvalSamplesAlwaysMax(T_total, max_samples) == IF max_samples = None THEN T_total ELSE max_samples
EvalSamples(T_total, max_samples) ==
    IF max_samples = None
    THEN T_total
    ELSE IF T_total < max_samples THEN T_total ELSE max_samples

\* WaveEvalDataset.__init__: the body of `for line in f` for one line
WaveEvalDatasetInitLine ==
    /\ ds_pc = "WaveEvalDataset.__init__"
    /\ ds_line <= Len(wav)
    /\ LET ID == ds_line
           samples == EvalSamples(wav[ID], ds.max_samples)
       IN  json_data' = Append(json_data, Data(ID, ds.n_sources, 0, samples))
    /\ ds_line' = ds_line + 1
    /\ UNCHANGED <<wav, ds, ds_pc, item>>
    /\ UNCHANGED notWsj

WaveEvalDatasetInitReturn ==
    /\ ds_pc = "WaveEvalDataset.__init__"
    /\ ds_line > Len(wav)
    /\ ds_pc' = "ready"
    /\ UNCHANGED <<wav, ds, json_data, ds_line, item>>
    /\ UNCHANGED notWsj

\* len(np.array(wave)[start: end]) for 0 <= start, 0 <= end
PySliceLen(len, start, end) == Max(0, Min(end, len) - Min(start, len))

\* WaveDataset.__getitem__(idx): shapes of mixture and sources, and segment_ID.
\* The source files s<k>/<ID>.wav are as long as mix/<ID>.wav.
WaveDatasetGetItem(idx) ==
    LET data == json_data[idx + 1]
        lens == [k \in 1 .. Len(data.sources) |->
                    PySliceLen(wav[data.ID], data.sources[k].start, data.sources[k].end)]
        start == data.mixture.start
        end == data.mixture.end
    IN  [mixture |-> <<1, PySliceLen(wav[data.ID], start, end)>>,
         sources |-> <<Len(lens), lens[1]>>,
         segment_ID |-> <<data.ID, start, end>>]

\* __getitem__ of the three classes
GetItem ==
    /\ ds_pc = "ready"
    /\ \E idx \in 0 .. Len(json_data) - 1 :
        LET got == WaveDatasetGetItem(idx)
        IN  item' = CASE ds.cls = "WaveDataset" -> got
                      [] ds.cls = "WaveTrainDataset" -> [got EXCEPT !.segment_ID = <<>>]
                      [] ds.cls = "WaveEvalDataset" ->
                            [got EXCEPT !.segment_ID = <<json_data[idx + 1].ID>>]
    /\ UNCHANGED <<wav, ds, json_data, ds_pc, ds_line>>
    /\ UNCHANGED notWsj

\* WaveDataset.__len__
DatasetLen == Len(json_data)

WsjInit ==
    /\ wav \in ListFiles
    /\ ds \in DatasetArgs
    /\ ds.cls # "WaveEvalDataset" => \A i \in DOMAIN wav : wav[i] <= MaxT
    /\ json_data = <<>>
    /\ ds_pc = "WaveDataset.__init__"
    /\ ds_line = 1
    /\ item = NoItem

WsjOff ==
    /\ wav = <<>>
    /\ ds = [cls |-> "WaveDataset", samples |-> 1, overlap |-> None, n_sources |-> 1,
             max_samples |-> None]
    /\ json_data = <<>>
    /\ ds_pc = "off"
    /\ ds_line = 1
    /\ item = NoItem

WsjNext ==
    \/ WaveDatasetInitLine
    \/ WaveDatasetInitReturn
    \/ WaveEvalDatasetClear
    \/ WaveEvalDatasetInitLine
    \/ WaveEvalDatasetInitReturn
    \/ GetItem


(***************************************************************************)
(* MUSDB18 datasets                                                        *)
(***************************************************************************)
\* __sources__ = ['drums','bass','other','vocals']
Sources == <<"drums", "bass", "other", "vocals">>

SAMPLE_RATE_MUSDB18 == 44100

Range(f) == {f[i] : i \in DOMAIN f}

\* self.sources as given to the constructor
SourcesArgs ==
    {Sources, <<"bass", "other", "vocals", "drums">>, <<"drums", "bass">>, <<"vocals">>}

\* self.target: a list of source names, or a single name (a str)
TargetArgs ==
    {[is_list |-> TRUE, names |-> n] : n \in SourcesArgs}
        \cup {[is_list |-> FALSE, names |-> <<"vocals">>]}

MusdbArgs ==
    [cls : {"WaveDataset", "SpectrogramEvalDataset"},
     sources : SourcesArgs,
     target : TargetArgs,
     max_samples : 0 .. MaxTrackSamples \cup {10 * SAMPLE_RATE_MUSDB18},
     parent_sets_mus : BOOLEAN]

TrackLists == UNION {[1 .. n -> 0 .. MaxTrackSamples] : n \in 0 .. MaxTracks}

NoOut == [called |-> FALSE, status |-> "", returned |-> <<>>, sources |-> <<>>, missing |-> ""]

\* __getitem__ raised
Raised(status, missing) ==
    [called |-> TRUE, status |-> status, returned |-> <<>>, sources |-> <<>>, missing |-> missing]

\* the track dict the constructors append to self.tracks
Track(name, n, sources) ==
    [name |-> name, samples |-> n, path |-> {"mixture"} \cup Range(sources)]

\* SpectrogramEvalDataset.__init__: song_data
SongData(id, samples) == [songID |-> id, start |-> 0, samples |-> samples]

\* SpectrogramEvalDataset.__init__: the body of `for songID, name in enumerate(names)`
SpectrogramEvalDatasetInitTrack ==
    /\ mus_pc = "SpectrogramEvalDataset.__init__"
    /\ songID < Len(track_samples)
    /\ LET n == track_samples[songID + 1]
           samples == Min(mus.max_samples, n)
       IN  /\ tracks' = Append(tracks, Track(songID, n, mus.sources))
           /\ mus_json' = Append(mus_json, SongData(songID, samples))
    /\ songID' = songID + 1
    /\ UNCHANGED <<mus, track_samples, mus_pc, out>>
    /\ UNCHANGED notMusdb

SpectrogramEvalDatasetInitReturn ==
    /\ mus_pc = "SpectrogramEvalDataset.__init__"
    /\ songID >= Len(track_samples)
    /\ mus_pc' = "ready"
    /\ UNCHANGED <<mus, track_samples, tracks, mus_json, songID, out>>
    /\ UNCHANGED notMusdb

\* the attributes of a constructed SpectrogramEvalDataset: those written by the
\* constructors of WaveDataset, SpectrogramDataset and SpectrogramEvalDataset,
\* and those of the parent MUSDB18Dataset, which WaveDataset.__getitem__ and
\* SpectrogramTrainDataset.__init__ rely on (whether it provides `mus` is open)
Attributes ==
    {"json_data", "fft_size", "hop_size", "n_bins", "window", "normalize",
     "patch_size", "max_samples", "tracks"}
        \cup {"sources", "target", "sr"}
        \cup (IF mus.parent_sets_mus THEN {"mus"} ELSE {})

\* SpectrogramEvalDataset.__getitem__: the keys of `data` and the attributes of
\* `self` it reads, in program order
EvalReads ==
    <<[of |-> "data", name |-> "songID"],
      [of |-> "self", name |-> "mus"],
      [of |-> "data", name |-> "start"],
      [of |-> "data", name |-> "duration"],
      [of |-> "self", name |-> "sources"],
      [of |-> "self", name |-> "fft_size"],
      [of |-> "self", name |-> "hop_size"],
      [of |-> "self", name |-> "window"],
      [of |-> "self", name |-> "normalize"]>>

ReadFails(data, r) ==
    IF r.of = "data" THEN r.name \notin DOMAIN data ELSE r.name \notin Attributes

\* SpectrogramEvalDataset.__getitem__(idx)
SpectrogramEvalDatasetGetItem(idx) ==
    LET data == mus_json[idx + 1]
        failing == {k \in 1 .. Len(EvalReads) : ReadFails(data, EvalReads[k])}
    IN  IF failing = {}
        THEN [called |-> TRUE, status |-> "ok",
              returned |-> <<"mixture", "target", "latent", "source_names", "scales">>,
              sources |-> <<>>, missing |-> ""]
        ELSE LET first == CHOOSE k \in failing : \A j \in failing : k <= j
             IN  Raised(IF EvalReads[first].of = "data" THEN "KeyError" ELSE "AttributeError",
                        EvalReads[first].name)

\* self.sources.index(_target)
IndexOf(seq, x) == (CHOOSE i \in DOMAIN seq : seq[i] = x /\ \A j \in 1 .. i - 1 : seq[j] # x) - 1

\* torchaudio.load(path, frame_offset=start, num_frames=samples): frames read
Loaded(n, start, samples) == Max(0, Min(n - start, samples))

\* WaveDataset.__getitem__(idx), with _target the value random.choice returns
WaveDatasetMusdbGetItem(idx, _target) ==
    LET data == mus_json[idx + 1]
        track == tracks[data.songID + 1]
        T == Loaded(track.samples, data.start, data.samples)
        head == {"data", "songID", "track", "name", "paths", "start", "samples"}
        mixed == IF Range(mus.sources) = Range(Sources)
                 THEN head \cup {"mixture", "_"}
                 ELSE head \cup {"sources", "_source", "source", "_", "mixture"}
        source_idx == IndexOf(mus.sources, _target)
        locals == mixed \cup {"latent", "_target", "source_idx", "scale", "target"}
        returned == <<"mixture", "target", "latent", "name", "sources", "scale">>
    IN  IF ~mus.target.is_list
        THEN Raised("ValueError", "")
        ELSE IF source_idx >= Len(mus.target.names)
        THEN Raised("IndexError", "")
        ELSE IF \E k \in 1 .. Len(returned) : returned[k] \notin locals
        THEN Raised("UnboundLocalError",
                    returned[CHOOSE k \in 1 .. Len(returned) : returned[k] \notin locals])
        ELSE [called |-> TRUE, status |-> "ok", returned |-> returned,
              sources |-> <<Len(mus.sources), T>>, missing |-> ""]

\* dataset[idx] for a valid idx
MusdbGetItem ==
    /\ mus_pc = "ready"
    /\ \E idx \in 0 .. Len(mus_json) - 1 :
        IF mus.cls = "WaveDataset"
        THEN \E _target \in Range(mus.sources) : out' = WaveDatasetMusdbGetItem(idx, _target)
        ELSE out' = SpectrogramEvalDatasetGetItem(idx)
    /\ UNCHANGED <<mus, track_samples, tracks, mus_json, mus_pc, songID>>
    /\ UNCHANGED notMusdb

\* A WaveDataset whose tracks and json_data were filled in (it sets
\* json_data = None itself), or a SpectrogramEvalDataset about to read
\* validation.txt (self.tracks = [], self.json_data = [])
MusdbInit ==
    /\ mus \in MusdbArgs
    /\ track_samples \in TrackLists
    /\ out = NoOut
    /\ mus.target.is_list => Len(mus.target.names) >= Len(mus.sources)
    /\ IF mus.cls = "WaveDataset"
       THEN /\ mus.max_samples = 0
            /\ ~mus.parent_sets_mus
            /\ tracks = [i \in DOMAIN track_samples |-> Track(i - 1, track_samples[i], mus.sources)]
            /\ mus_json = [i \in DOMAIN track_samples |-> SongData(i - 1, track_samples[i])]
            /\ songID = Len(track_samples)
            /\ mus_pc = "ready"
       ELSE /\ tracks = <<>>
            /\ mus_json = <<>>
            /\ songID = 0
            /\ mus_pc = "SpectrogramEvalDataset.__init__"

MusdbOff ==
    /\ mus = [cls |-> "WaveDataset", sources |-> Sources,
              target |-> [is_list |-> TRUE, names |-> Sources], max_samples |-> 0,
              parent_sets_mus |-> FALSE]
    /\ track_samples = <<>>
    /\ tracks = <<>>
    /\ mus_json = <<>>
    /\ mus_pc = "off"
    /\ songID = 0
    /\ out = NoOut

MusdbNext ==
    \/ SpectrogramEvalDatasetInitTrack
    \/ SpectrogramEvalDatasetInitReturn
    \/ MusdbGetItem


(***************************************************************************)
(* Segment1d / OverlapAdd1d                                                *)
(*                                                                         *)
(* A tensor is its shape and its elements in row-major (contiguous) order. *)
(* An element is a formal sum of input positions, kept as a bag: the input *)
(* element at position p is the bag holding p once, and adding elements is *)
(* bag union, so the model says exactly which input elements each output   *)
(* element is the sum of.                                                  *)
(***************************************************************************)
RECURSIVE Numel(_)
Numel(shape) == IF shape = <<>> THEN 1 ELSE Head(shape) * Numel(Tail(shape))

\* row-major offset of the 0-based index idx (its first d components)
RECURSIVE Offset(_, _, _)
Offset(shape, idx, d) == IF d = 0 THEN 0 ELSE Offset(shape, idx, d - 1) * shape[d] + idx[d]

\* the 0-based index of row-major offset n
Unravel(shape, n) ==
    [d \in 1 .. Len(shape) |-> (n \div Numel(SubSeq(shape, d + 1, Len(shape)))) % shape[d]]

Get(t, idx) == t.data[Offset(t.shape, idx, Len(t.shape)) + 1]

\* the contiguous tensor of the given shape whose element at idx is F(idx)
Make(shape, F(_)) == [shape |-> shape, data |-> [n \in 1 .. Numel(shape) |-> F(Unravel(shape, n - 1))]]

NoTensor == [shape |-> <<>>, data |-> <<>>]

\* the input tensor of the given shape: element idx is the formal sum "idx"
Fresh(shape) == Make(shape, LAMBDA idx : SetToBag({idx}))

\* t.view(shape) of a contiguous tensor (same elements, same order)
ViewOk(t, shape) == Numel(shape) = Numel(t.shape)
View(t, shape) == [shape |-> shape, data |-> t.data]

\* t.permute(0,1,3,2).contiguous()
Permute0132(t) ==
    Make(<<t.shape[1], t.shape[2], t.shape[4], t.shape[3]>>,
         LAMBDA idx : Get(t, <<idx[1], idx[2], idx[4], idx[3]>>))

\* number of blocks F.unfold / F.fold work with
Blocks(n_frames, kernel, stride) == (n_frames - kernel) \div stride + 1

\* F.unfold(t, kernel_size=(kernel,1), stride=(stride,1)) for t of shape (B, C, H, 1)
UnfoldOk(t, kernel, stride) == t.shape[3] >= kernel
UnfoldStartUnitStride(l, stride, k) == l + k
UnfoldStart(l, stride, k) == l * stride + k
Unfold(t, kernel, stride) ==
    Make(<<t.shape[1], t.shape[2] * kernel, Blocks(t.shape[3], kernel, stride)>>,
         LAMBDA idx : Get(t, <<idx[1], idx[2] \div kernel,
                                UnfoldStart(idx[3], stride, idx[2] % kernel), 0>>))

\* sum over the blocks l' < l of the elements F.fold adds into output position t
RECURSIVE FoldSum(_, _, _, _, _, _, _)
FoldSum(t, b, c, pos, kernel, stride, l) ==
    IF l = 0
    THEN EmptyBag
    ELSE LET k == pos - (l - 1) * stride
             rest == FoldSum(t, b, c, pos, kernel, stride, l - 1)
         IN  IF 0 <= k /\ k < kernel
             THEN rest (+) Get(t, <<b, c * kernel + k, l - 1>>)
             ELSE rest

\* F.fold(t, kernel_size=(kernel,1), stride=(stride,1), output_size=(n_frames,1))
\* for t of shape (B, C*kernel, L)
FoldOk(t, kernel, stride, n_frames) ==
    /\ t.shape[2] % kernel = 0
    /\ n_frames >= kernel
    /\ t.shape[3] = Blocks(n_frames, kernel, stride)
Fold(t, kernel, stride, n_frames) ==
    Make(<<t.shape[1], t.shape[2] \div kernel, n_frames, 1>>,
         LAMBDA idx : FoldSum(t, idx[1], idx[2], idx[3], kernel, stride, t.shape[3]))

\* Segment1d.forward: input.view(batch_size, num_features, n_frames, 1)
SegmentView ==
    /\ layer.cls = "Segment1d"
    /\ fpc = "forward"
    /\ xt' = View(input, input.shape \o <<1>>)
    /\ fpc' = "viewed"
    /\ UNCHANGED <<layer, input, output>>
    /\ UNCHANGED notTransform

\* Segment1d.forward: x = F.unfold(input, kernel_size=(chunk_size,1), stride=(hop_size,1))
SegmentUnfold ==
    /\ layer.cls = "Segment1d"
    /\ fpc = "viewed"
    /\ IF UnfoldOk(xt, layer.chunk_size, layer.hop_size)
       THEN /\ xt' = Unfold(xt, layer.chunk_size, layer.hop_size)
            /\ fpc' = "unfolded"
       ELSE /\ fpc' = "RuntimeError"
            /\ UNCHANGED xt
    /\ UNCHANGED <<layer, input, output>>
    /\ UNCHANGED notTransform

\* Segment1d.forward: x = x.view(batch_size, num_features, chunk_size, -1)
SegmentReshape ==
    /\ layer.cls = "Segment1d"
    /\ fpc = "unfolded"
    /\ LET batch_size == input.shape[1]
           num_features == input.shape[2]
           rest == Numel(xt.shape) \div (batch_size * num_features * layer.chunk_size)
       IN  xt' = View(xt, <<batch_size, num_features, layer.chunk_size, rest>>)
    /\ fpc' = "reshaped"
    /\ UNCHANGED <<layer, input, output>>
    /\ UNCHANGED notTransform

\* Segment1d.forward: output = x.permute(0,1,3,2).contiguous(); return output
SegmentPermute ==
    /\ layer.cls = "Segment1d"
    /\ fpc = "reshaped"
    /\ output' = Permute0132(xt)
    /\ fpc' = "returned"
    /\ UNCHANGED <<layer, input, xt>>
    /\ UNCHANGED notTransform

\* OverlapAdd1d.forward: batch_size, num_features, S, chunk_size = input.size()
\* (the local chunk_size is the input's from here on)
ChunkSizeOfModule == layer.chunk_size
ChunkSizeUsed == input.shape[4]

\* OverlapAdd1d.forward: n_frames = (S - 1) * hop_size + chunk_size
OutFrames == (input.shape[3] - 1) * layer.hop_size + ChunkSizeUsed

\* OverlapAdd1d.forward: x = input.permute(0,1,3,2).contiguous()
OverlapAddPermute ==
    /\ layer.cls = "OverlapAdd1d"
    /\ fpc = "forward"
    /\ xt' = Permute0132(input)
    /\ fpc' = "permuted"
    /\ UNCHANGED <<layer, input, output>>
    /\ UNCHANGED notTransform

\* OverlapAdd1d.forward: x = x.view(batch_size, num_features*chunk_size, S)
OverlapAddReshape ==
    /\ layer.cls = "OverlapAdd1d"
    /\ fpc = "permuted"
    /\ LET shape == <<input.shape[1], input.shape[2] * ChunkSizeUsed, input.shape[3]>>
       IN  IF ViewOk(xt, shape)
           THEN /\ xt' = View(xt, shape)
                /\ fpc' = "reshaped"
           ELSE /\ fpc' = "RuntimeError"
                /\ UNCHANGED xt
    /\ UNCHANGED <<layer, input, output>>
    /\ UNCHANGED notTransform

\* OverlapAdd1d.forward: output = F.fold(x, kernel_size=(chunk_size,1),
\* stride=(hop_size,1), output_size=(n_frames,1))
OverlapAddFold ==
    /\ layer.cls = "OverlapAdd1d"
    /\ fpc = "reshaped"
    /\ IF FoldOk(xt, ChunkSizeUsed, layer.hop_size, OutFrames)
       THEN /\ xt' = Fold(xt, ChunkSizeUsed, layer.hop_size, OutFrames)
            /\ fpc' = "folded"
       ELSE /\ fpc' = "RuntimeError"
            /\ UNCHANGED xt
    /\ UNCHANGED <<layer, input, output>>
    /\ UNCHANGED notTransform

\* OverlapAdd1d.forward: output = output.squeeze(dim=3); return output
OverlapAddSqueeze ==
    /\ layer.cls = "OverlapAdd1d"
    /\ fpc = "folded"
    /\ output' = IF xt.shape[4] = 1 THEN View(xt, SubSeq(xt.shape, 1, 3)) ELSE xt
    /\ fpc' = "returned"
    /\ UNCHANGED <<layer, input, xt>>
    /\ UNCHANGED notTransform

\* a module and the tensor it is called with
TransformInit ==
    /\ layer \in [cls : {"Segment1d", "OverlapAdd1d"}, chunk_size : 1 .. MaxChunk,
                  hop_size : 1 .. MaxHop]
    /\ \E batch_size \in 1 .. MaxBatch, num_features \in 1 .. MaxFeatures :
        IF layer.cls = "Segment1d"
        THEN \E n_frames \in 1 .. MaxFrames :
                input = Fresh(<<batch_size, num_features, n_frames>>)
        ELSE \E S \in 1 .. MaxS, chunk_size \in 1 .. MaxChunk :
                input = Fresh(<<batch_size, num_features, S, chunk_size>>)
    /\ xt = NoTensor
    /\ output = NoTensor
    /\ fpc = "forward"

TransformOff ==
    /\ layer = [cls |-> "Segment1d", chunk_size |-> 1, hop_size |-> 1]
    /\ input = NoTensor
    /\ xt = NoTensor
    /\ output = NoTensor
    /\ fpc = "off"

TransformNext ==
    \/ SegmentView
    \/ SegmentUnfold
    \/ SegmentReshape
    \/ SegmentPermute
    \/ OverlapAddPermute
    \/ OverlapAddReshape
    \/ OverlapAddFold
    \/ OverlapAddSqueeze

(***************************************************************************)
(* DPTNet and its Separator (src/models/dptnet.py)                         *)
(***************************************************************************)
\* EPS = 1e-12, in units of 1e-12
EPS == 1

\* the value None of an optional string argument
NoneStr == "None"

\* a module whose constructor raised
NetRaised(e) == [raised |-> e]

\* the keyword arguments DPTNet(...) is called with besides the named ones
KwargsSet ==
    UNION {[keys -> {"relu", NoneStr}] : keys \in SUBSET {"enc_nonlinear", "window_fn"}}

\* Separator.__init__: the fields it sets, or the ValueError of an unknown mask_nonlinear
SeparatorNew(num_features, chunk_size, hop_size, mask_nonlinear, n_sources) ==
    IF mask_nonlinear \notin {"relu", "sigmoid", "softmax"}
    THEN NetRaised("ValueError")
    ELSE [raised |-> "", cls |-> "Separator",
          num_features |-> num_features, n_sources |-> n_sources,
          chunk_size |-> chunk_size,
          hop_size |-> IF hop_size = None THEN chunk_size \div 2 ELSE hop_size]

\* DPTNet.__init__: `if stride is None: stride = kernel_size//2`
Stride(a) == IF a.stride = None THEN a.kernel_size \div 2 ELSE a.stride

\* DPTNet.__init__: `if sep_hop_size is None: sep_hop_size = sep_chunk_size//2`
SepHopSize(a) == IF a.sep_hop_size = None THEN a.sep_chunk_size \div 2 ELSE a.sep_hop_size

\* DPTNet.__init__: self.enc_nonlinear is kwargs['enc_nonlinear'] or None
UsesEncNonlinear(a) == a.enc_bases = "trainable" /\ ~(a.dec_bases = "pinv")

\* DPTNet.__init__: self.window_fn is kwargs['window_fn'] or None
UsesWindowFn(a) ==
    \/ a.enc_bases \in {"Fourier", "trainableFourier"}
    \/ a.dec_bases \in {"Fourier", "trainableFourier"}

\* DPTNet.__init__ called with the named arguments a (a.kwargs: the others):
\* the fields it sets, or the exception it raises
DPTNetNew(a) ==
    IF Stride(a) = 0 \/ a.sep_num_heads = 0
    THEN NetRaised("ZeroDivisionError")
    ELSE IF a.kernel_size % Stride(a) # 0 \/ a.n_bases % a.sep_num_heads # 0
    THEN NetRaised("AssertionError")
    ELSE IF UsesEncNonlinear(a) /\ "enc_nonlinear" \notin DOMAIN a.kwargs
    THEN NetRaised("KeyError")
    ELSE IF UsesWindowFn(a) /\ "window_fn" \notin DOMAIN a.kwargs
    THEN NetRaised("KeyError")
    ELSE LET separator == SeparatorNew(a.n_bases, a.sep_chunk_size, SepHopSize(a),
                                       a.mask_nonlinear, a.n_sources)
         IN  IF separator.raised # ""
             THEN separator
             ELSE [raised |-> "", cls |-> "DPTNet",
                   n_bases |-> a.n_bases,
                   kernel_size |-> a.kernel_size, stride |-> Stride(a),
                   enc_bases |-> a.enc_bases, dec_bases |-> a.dec_bases,
                   enc_nonlinear |-> IF UsesEncNonlinear(a) THEN a.kwargs["enc_nonlinear"]
                                     ELSE NoneStr,
                   window_fn |-> IF UsesWindowFn(a) THEN a.kwargs["window_fn"] ELSE NoneStr,
                   sep_bottleneck_channels |-> a.sep_bottleneck_channels,
                   sep_hidden_channels |-> a.sep_hidden_channels,
                   sep_chunk_size |-> a.sep_chunk_size, sep_hop_size |-> SepHopSize(a),
                   sep_num_blocks |-> a.sep_num_blocks,
                   sep_num_heads |-> a.sep_num_heads,
                   sep_norm |-> a.sep_norm,
                   sep_nonlinear |-> a.sep_nonlinear,
                   sep_dropout |-> a.sep_dropout,
                   causal |-> a.causal,
                   mask_nonlinear |-> a.mask_nonlinear,
                   n_sources |-> a.n_sources,
                   eps |-> a.eps,
                   separator |-> separator]

\* DPTNet.get_package
GetPackage(m) ==
    [n_bases |-> m.n_bases,
     kernel_size |-> m.kernel_size,
     stride |-> m.stride,
     enc_bases |-> m.enc_bases,
     dec_bases |-> m.dec_bases,
     enc_nonlinear |-> m.enc_nonlinear,
     window_fn |-> m.window_fn,
     sep_hidden_channels |-> m.sep_hidden_channels,
     sep_bottleneck_channels |-> m.sep_bottleneck_channels,
     sep_chunk_size |-> m.sep_chunk_size,
     sep_hop_size |-> m.sep_hop_size,
     sep_num_blocks |-> m.sep_num_blocks,
     sep_num_heads |-> m.sep_num_heads,
     sep_norm |-> m.sep_norm,
     sep_nonlinear |-> m.sep_nonlinear,
     sep_dropout |-> m.sep_dropout,
     mask_nonlinear |-> m.mask_nonlinear,
     causal |-> m.causal,
     n_sources |-> m.n_sources,
     eps |-> m.eps]

\* DPTNet.build_model: the keys it reads with package[...]
PackageKeysRead ==
    {"n_bases", "kernel_size", "stride", "enc_bases", "dec_bases", "enc_nonlinear",
     "window_fn", "sep_hidden_channels", "sep_bottleneck_channels", "sep_chunk_size",
     "sep_hop_size", "sep_num_blocks", "sep_num_heads", "sep_norm", "sep_nonlinear",
     "sep_dropout", "mask_nonlinear", "causal", "n_sources", "eps"}

\* DPTNet.build_model: the keyword arguments cls(...) receives besides the named ones
BuildKwargsWithoutEncNonlinear(p) == [k \in {"window_fn"} |-> p[k]]
BuildKwargs(p) == [k \in {"enc_nonlinear", "window_fn"} |-> p[k]]

\* DPTNet.build_model on the loaded package p
BuildModel(p) ==
    IF ~(PackageKeysRead \subseteq DOMAIN p)
    THEN NetRaised("KeyError")
    ELSE DPTNetNew([n_bases |-> p.n_bases,
                    kernel_size |-> p.kernel_size, stride |-> p.stride,
                    enc_bases |-> p.enc_bases, dec_bases |-> p.dec_bases,
                    sep_bottleneck_channels |-> p.sep_bottleneck_channels,
                    sep_hidden_channels |-> p.sep_hidden_channels,
                    sep_chunk_size |-> p.sep_chunk_size, sep_hop_size |-> p.sep_hop_size,
                    sep_num_blocks |-> p.sep_num_blocks,
                    sep_num_heads |-> p.sep_num_heads,
                    sep_norm |-> p.sep_norm, sep_nonlinear |-> p.sep_nonlinear,
                    sep_dropout |-> p.sep_dropout,
                    mask_nonlinear |-> p.mask_nonlinear,
                    causal |-> p.causal,
                    n_sources |-> p.n_sources,
                    eps |-> p.eps,
                    kwargs |-> BuildKwargs(p)])

\* the arguments the constructor is tried with
DPTNetArgs ==
    [n_bases : {4, 5},
     kernel_size : 1 .. MaxKernel, stride : {None} \cup (1 .. MaxKernel),
     enc_bases : {"trainable", "Fourier"}, dec_bases : {"trainable", "pinv"},
     sep_bottleneck_channels : {64}, sep_hidden_channels : {256},
     sep_chunk_size : 1 .. MaxChunk, sep_hop_size : {None} \cup (1 .. MaxHop),
     sep_num_blocks : {6},
     sep_num_heads : {2},
     sep_norm : {TRUE}, sep_nonlinear : {"relu"}, sep_dropout : {0},
     mask_nonlinear : {"relu", "tanh"},
     causal : {FALSE},
     n_sources : {2},
     eps : {EPS},
     kwargs : KwargsSet]

NoSig == [T |-> 0, padding_left |-> 0, padding_right |-> 0, len |-> 0, frames |-> 0]
NoSep == [n_frames |-> 0, padding_left |-> 0, padding_right |-> 0, shape |-> <<>>]
NoNet == NetRaised("not constructed")

\* model = DPTNet(...)
DPTNetConstruct ==
    /\ npc = "script"
    /\ net' = DPTNetNew(ctor)
    /\ npc' = IF net'.raised = "" THEN "constructed" ELSE "failed"
    /\ UNCHANGED <<ctor, sig, sep, model_path, rebuilt>>
    /\ UNCHANGED notDptnet

\* the module whose package is saved next: model, then the rebuilt one
Latest == IF npc = "constructed" THEN net ELSE rebuilt

\* torch.save(model.get_package(), model_path)
DPTNetSave ==
    /\ npc \in {"constructed", "built"}
    /\ model_path' = <<GetPackage(Latest)>>
    /\ npc' = IF npc = "constructed" THEN "saved" ELSE "saved again"
    /\ UNCHANGED <<ctor, net, sig, sep, rebuilt>>
    /\ UNCHANGED notDptnet

\* model = DPTNet.build_model(model_path)
DPTNetBuildModel ==
    /\ npc \in {"saved", "saved again"}
    /\ rebuilt' = BuildModel(model_path[1])
    /\ npc' = IF rebuilt'.raised # "" THEN "build failed"
              ELSE IF npc = "saved" THEN "built" ELSE "built again"
    /\ UNCHANGED <<ctor, net, sig, sep, model_path>>
    /\ UNCHANGED notDptnet

PackageInit ==
    /\ ctor \in DPTNetArgs
    /\ net = NoNet
    /\ npc = "script"
    /\ sig = NoSig
    /\ sep = NoSep
    /\ model_path = <<>>
    /\ rebuilt = NoNet

DptnetOff ==
    /\ ctor = <<>>
    /\ net = NoNet
    /\ npc = "off"
    /\ sig = NoSig
    /\ sep = NoSep
    /\ model_path = <<>>
    /\ rebuilt = NoNet

PackageNext ==
    \/ DPTNetConstruct
    \/ DPTNetSave
    \/ DPTNetBuildModel

\* DPTNet.extract_latent: padding = (stride - (T-kernel_size)%stride)%stride
ExtractLatentPadding(T, kernel_size, stride) ==
    (stride - ((T - kernel_size) % stride)) % stride

\* Separator.forward: padding = (hop_size-(n_frames-chunk_size)%hop_size)%hop_size
SeparatorPadding(n_frames, chunk_size, hop_size) ==
    (hop_size - ((n_frames - chunk_size) % hop_size)) % hop_size

\* frames of self.encoder(input) for an input of L samples
EncoderFrames(L, kernel_size, stride) == (L - kernel_size) \div stride + 1

\* samples of self.decoder(w_hat) for w_hat of n frames
DecoderSamples(n, kernel_size, stride) == (n - 1) * stride + kernel_size

\* length of F.pad(x, (left, right)) for x of length len (negative values crop)
PadLen(len, left, right) == len + left + right

\* DPTNet.extract_latent: the padding and F.pad(input, (padding_left, padding_right))
ExtractLatentPad ==
    /\ net.cls = "DPTNet"
    /\ npc = "forward"
    /\ LET padding == ExtractLatentPadding(sig.T, net.kernel_size, net.stride)
           padding_left == padding \div 2
           padding_right == padding - padding_left
       IN  sig' = [sig EXCEPT !.padding_left = padding_left,
                              !.padding_right = padding_right,
                              !.len = PadLen(sig.T, padding_left, padding_right)]
    /\ npc' = "padded"
    /\ UNCHANGED <<ctor, net, sep, model_path, rebuilt>>
    /\ UNCHANGED notDptnet

\* DPTNet.extract_latent: w = self.encoder(input); mask = self.separator(w) is entered
ExtractLatentEncode ==
    /\ net.cls = "DPTNet"
    /\ npc = "padded"
    /\ IF sig.len >= net.kernel_size
       THEN LET frames == EncoderFrames(sig.len, net.kernel_size, net.stride)
            IN  /\ sig' = [sig EXCEPT !.frames = frames]
                /\ sep' = [NoSep EXCEPT !.n_frames = frames, !.shape = <<frames>>]
                /\ npc' = "separator"
       ELSE /\ npc' = "RuntimeError"
            /\ UNCHANGED <<sig, sep>>
    /\ UNCHANGED <<ctor, net, model_path, rebuilt>>
    /\ UNCHANGED notDptnet

\* the Separator that runs: the module itself or DPTNet's self.separator
TheSeparator == IF net.cls = "Separator" THEN net ELSE net.separator

\* Separator.forward: the padding, bottleneck_conv1d and F.pad(x, (padding_left, padding_right))
SeparatorPad ==
    /\ npc = "separator"
    /\ LET padding == SeparatorPadding(sep.n_frames, TheSeparator.chunk_size,
                                       TheSeparator.hop_size)
           padding_left == padding \div 2
           padding_right == padding - padding_left
       IN  sep' = [sep EXCEPT !.padding_left = padding_left,
                              !.padding_right = padding_right,
                              !.shape = <<PadLen(sep.n_frames, padding_left, padding_right)>>]
    /\ npc' = "sep padded"
    /\ UNCHANGED <<ctor, net, sig, model_path, rebuilt>>
    /\ UNCHANGED notDptnet

\* Separator.forward: x = self.segment1d(x), of shape (batch_size, C, S, chunk_size)
SeparatorSegment ==
    /\ npc = "sep padded"
    /\ IF sep.shape[1] >= TheSeparator.chunk_size
       THEN /\ sep' = [sep EXCEPT !.shape = <<Blocks(sep.shape[1], TheSeparator.chunk_size,
                                                     TheSeparator.hop_size),
                                              TheSeparator.chunk_size>>]
            /\ npc' = "segmented"
       ELSE /\ npc' = "RuntimeError"
            /\ UNCHANGED sep
    /\ UNCHANGED <<ctor, net, sig, model_path, rebuilt>>
    /\ UNCHANGED notDptnet

\* Separator.forward: norm2d and dptransformer keep the shape; x = self.overlap_add1d(x)
SeparatorOverlapAdd ==
    /\ npc = "segmented"
    /\ sep' = [sep EXCEPT !.shape = <<(sep.shape[1] - 1) * TheSeparator.hop_size
                                        + sep.shape[2]>>]
    /\ npc' = "overlap added"
    /\ UNCHANGED <<ctor, net, sig, model_path, rebuilt>>
    /\ UNCHANGED notDptnet

\* Separator.forward: x = F.pad(x, (-padding_left, -padding_right))
SeparatorCrop ==
    /\ npc = "overlap added"
    /\ LET len == PadLen(sep.shape[1], 0 - sep.padding_left, 0 - sep.padding_right)
       IN  IF len >= 0
           THEN /\ sep' = [sep EXCEPT !.shape = <<len>>]
                /\ npc' = "cropped"
           ELSE /\ npc' = "RuntimeError"
                /\ UNCHANGED sep
    /\ UNCHANGED <<ctor, net, sig, model_path, rebuilt>>
    /\ UNCHANGED notDptnet

\* Separator.forward: prelu, map, x.view(batch_size*n_sources, num_features, n_frames),
\* gtu, mask_nonlinear, output = x.view(batch_size, n_sources, num_features, n_frames)
SeparatorReturn ==
    /\ npc = "cropped"
    /\ npc' = IF sep.shape[1] # sep.n_frames THEN "RuntimeError"
              ELSE IF net.cls = "Separator" THEN "returned"
              ELSE "masked"
    /\ UNCHANGED <<ctor, net, sig, sep, model_path, rebuilt>>
    /\ UNCHANGED notDptnet

\* DPTNet.extract_latent: w_hat = w * mask; x_hat = self.decoder(w_hat)
ExtractLatentDecode ==
    /\ npc = "masked"
    /\ IF sep.shape[1] = sig.frames
       THEN /\ sig' = [sig EXCEPT !.len = DecoderSamples(sig.frames, net.kernel_size,
                                                         net.stride)]
            /\ npc' = "decoded"
       ELSE /\ npc' = "RuntimeError"
            /\ UNCHANGED sig
    /\ UNCHANGED <<ctor, net, sep, model_path, rebuilt>>
    /\ UNCHANGED notDptnet

\* DPTNet.extract_latent: output = F.pad(x_hat, (-padding_left, -padding_right)); return
ExtractLatentCrop ==
    /\ npc = "decoded"
    /\ LET len == PadLen(sig.len, 0 - sig.padding_left, 0 - sig.padding_right)
       IN  IF len >= 0
           THEN /\ sig' = [sig EXCEPT !.len = len]
                /\ npc' = "returned"
           ELSE /\ npc' = "RuntimeError"
                /\ UNCHANGED sig
    /\ UNCHANGED <<ctor, net, sep, model_path, rebuilt>>
    /\ UNCHANGED notDptnet

\* the modules forward is called on: constructed DPTNets (encoder and separator
\* sizes varied, the rest default) and Separators, with a positive hop size
ForwardModules ==
    LET nets == {DPTNetNew(a) : a \in {a \in DPTNetArgs :
                        /\ a.n_bases = 4
                        /\ a.enc_bases = "trainable"
                        /\ a.dec_bases = "trainable"
                        /\ a.mask_nonlinear = "relu"
                        /\ a.kwargs = [k \in {"enc_nonlinear"} |-> "relu"]}}
        seps == {SeparatorNew(4, chunk_size, hop_size, "relu", 2) :
                    chunk_size \in 1 .. MaxChunk, hop_size \in {None} \cup (1 .. MaxHop)}
    IN  {m \in nets : m.raised = "" /\ m.separator.hop_size > 0}
            \cup {m \in seps : m.raised = "" /\ m.hop_size > 0}

\* a module and the size of the tensor it is called with
ForwardInit ==
    /\ ctor = <<>>
    /\ net \in ForwardModules
    /\ IF net.cls = "DPTNet"
       THEN /\ \E T \in 1 .. MaxSignal : sig = [NoSig EXCEPT !.T = T, !.len = T]
            /\ sep = NoSep
            /\ npc = "forward"
       ELSE /\ sig = NoSig
            /\ \E n_frames \in 1 .. MaxFrames :
                sep = [NoSep EXCEPT !.n_frames = n_frames, !.shape = <<n_frames>>]
            /\ npc = "separator"
    /\ model_path = <<>>
    /\ rebuilt = NoNet

ForwardNext ==
    \/ ExtractLatentPad
    \/ ExtractLatentEncode
    \/ SeparatorPad
    \/ SeparatorSegment
    \/ SeparatorOverlapAdd
    \/ SeparatorCrop
    \/ SeparatorReturn
    \/ ExtractLatentDecode
    \/ ExtractLatentCrop

(***************************************************************************)
(* OpenUnmix (src/models/umx.py)                                           *)
(***************************************************************************)
\* dropout = 0.4, in tenths
DefaultDropout == 4

\* python's `x or default` takes the default for a falsy x: None, 0 and 0.0
\* among the numbers, None and '' among the strings
OrNumber(x, default) == IF x \in {None, 0} THEN default ELSE x
OrString(x, default) == IF x \in {NoneStr, ""} THEN default ELSE x

\* dict.get(key): the value, or None for a missing key
DictGet(d, key, none) == IF key \in DOMAIN d THEN d[key] ELSE none

\* OpenUnmix.__init__: the hyperparameters it sets, or the exception it raises
OpenUnmixNew(a) ==
    IF a.n_bins = None
    THEN NetRaised("ValueError")
    ELSE IF ~a.causal /\ a.hidden_channels % 2 # 0
    THEN NetRaised("AssertionError")
    ELSE [raised |-> "", cls |-> "OpenUnmix",
          in_channels |-> a.in_channels, n_bins |-> a.n_bins,
          hidden_channels |-> a.hidden_channels, out_channels |-> a.hidden_channels,
          num_layers |-> a.num_layers,
          max_bin |-> IF a.max_bin = None THEN a.n_bins ELSE a.max_bin,
          dropout |-> IF a.dropout = None
                      THEN (IF a.num_layers > 1 THEN DefaultDropout ELSE 0)
                      ELSE a.dropout,
          causal |-> a.causal,
          rnn_type |-> a.rnn_type,
          eps |-> a.eps]

\* OpenUnmix.get_config
GetConfig(m) ==
    [in_channels |-> m.in_channels,
     hidden_channels |-> m.hidden_channels,
     num_layers |-> m.num_layers,
     n_bins |-> m.n_bins,
     max_bin |-> m.max_bin,
     dropout |-> m.dropout,
     causal |-> m.causal,
     rnn_type |-> m.rnn_type,
     eps |-> m.eps]

\* OpenUnmix.build_model: the keys it reads with config[...]
ConfigKeysRead ==
    {"in_channels", "hidden_channels", "num_layers", "n_bins", "max_bin", "dropout", "causal"}

\* OpenUnmix.build_model on the loaded config
OpenUnmixBuild(config) ==
    IF ~(ConfigKeysRead \subseteq DOMAIN config)
    THEN NetRaised("KeyError")
    ELSE OpenUnmixNew([in_channels |-> config.in_channels,
                       hidden_channels |-> config.hidden_channels,
                       num_layers |-> config.num_layers,
                       n_bins |-> config.n_bins, max_bin |-> config.max_bin,
                       dropout |-> config.dropout,
                       causal |-> config.causal,
                       rnn_type |-> OrString(DictGet(config, "rnn_type", NoneStr), "lstm"),
                       eps |-> OrNumber(DictGet(config, "eps", None), EPS)])

\* the arguments the constructor is tried with (dropout in tenths, eps in units of 1e-12)
OpenUnmixArgs ==
    [in_channels : 1 .. 2,
     hidden_channels : 2 .. 3,
     num_layers : 1 .. 2,
     n_bins : {None} \cup (1 .. MaxBins), max_bin : {None} \cup (1 .. MaxBins),
     dropout : {None, 0, DefaultDropout, DefaultDropout + 1},
     causal : BOOLEAN,
     rnn_type : {"lstm", "gru"},
     eps : {0, EPS, EPS + 1}]

\* model = OpenUnmix(...)
OpenUnmixConstruct ==
    /\ npc = "script"
    /\ net' = OpenUnmixNew(ctor)
    /\ npc' = IF net'.raised = "" THEN "constructed" ELSE "failed"
    /\ UNCHANGED <<ctor, sig, sep, model_path, rebuilt>>
    /\ UNCHANGED notDptnet

\* torch.save(model.get_config(), model_path)
OpenUnmixSave ==
    /\ npc = "constructed"
    /\ model_path' = <<GetConfig(net)>>
    /\ npc' = "saved"
    /\ UNCHANGED <<ctor, net, sig, sep, rebuilt>>
    /\ UNCHANGED notDptnet

\* model = OpenUnmix.build_model(model_path)
OpenUnmixBuildModel ==
    /\ npc = "saved"
    /\ rebuilt' = OpenUnmixBuild(model_path[1])
    /\ npc' = IF rebuilt'.raised # "" THEN "build failed" ELSE "built"
    /\ UNCHANGED <<ctor, net, sig, sep, model_path>>
    /\ UNCHANGED notDptnet

UmxInit ==
    /\ ctor \in OpenUnmixArgs
    /\ net = NoNet
    /\ npc = "script"
    /\ sig = NoSig
    /\ sep = NoSep
    /\ model_path = <<>>
    /\ rebuilt = NoNet

UmxNext ==
    \/ OpenUnmixConstruct
    \/ OpenUnmixSave
    \/ OpenUnmixBuildModel

(***************************************************************************)
(* IdealMaskSpectrogramDataset (egs/wsj0-mix/common/src/dataset.py)        *)
(***************************************************************************)
\* amplitudes of the time-frequency bins of a mixture, in units far above eps
AmplitudeValues == {0, 1, 5, 50, 500}

\* values of --threshold (dB)
ThresholdValues == {20, 40}

RECURSIVE Pow10(_)
Pow10(n) == IF n = 0 THEN 1 ELSE 10 * Pow10(n - 1)

RECURSIVE MaxOf(_)
MaxOf(s) == IF Len(s) = 1 THEN s[1] ELSE Max(s[1], MaxOf(Tail(s)))

\* threshold = 10**((max_log_amplitude - threshold) / 20) with
\* max_log_amplitude = max(20 * log10(mixture_amplitude + eps)): the level
\* (max(mixture_amplitude) + eps) / 10**(threshold/20), kept as a fraction
ThresholdLevel(amplitude, threshold_dB) ==
    [max_amplitude |-> MaxOf(amplitude), divisor |-> Pow10(threshold_dB \div 20)]

\* amplitude a > level, for an integer a and 0 < eps < 1
Above(a, level) == a * level.divisor > level.max_amplitude

\* torch.where(mixture_amplitude > 0, ones, zeros)
ThresholdWeight(amplitude, level) == [i \in DOMAIN amplitude |-> IF amplitude[i] > 0 THEN 1 ELSE 0]

\* IdealMaskSpectrogramDataset.__getitem__: mixture_amplitude, log_amplitude,
\* max_log_amplitude and the local threshold
IdealMaskThreshold ==
    /\ mask_pc = "getitem"
    /\ local_threshold' = ThresholdLevel(mixture_amplitude, threshold)
    /\ mask_pc' = "threshold"
    /\ UNCHANGED <<mixture_amplitude, threshold, threshold_weight>>
    /\ UNCHANGED notMask

\* IdealMaskSpectrogramDataset.__getitem__: threshold_weight and the return
IdealMaskWeight ==
    /\ mask_pc = "threshold"
    /\ threshold_weight' = ThresholdWeight(mixture_amplitude, local_threshold)
    /\ mask_pc' = "returned"
    /\ UNCHANGED <<mixture_amplitude, threshold, local_threshold>>
    /\ UNCHANGED notMask

NoLevel == [max_amplitude |-> 0, divisor |-> 1]

\* a dataset built with --threshold and the mixture spectrogram of one item
MaskInit ==
    /\ threshold \in ThresholdValues
    /\ \E n \in 1 .. MaxTFBins : mixture_amplitude \in [1 .. n -> AmplitudeValues]
    /\ local_threshold = NoLevel
    /\ threshold_weight = <<>>
    /\ mask_pc = "getitem"

MaskOff ==
    /\ threshold = 0
    /\ mixture_amplitude = <<>>
    /\ local_threshold = NoLevel
    /\ threshold_weight = <<>>
    /\ mask_pc = "off"

MaskNext ==
    \/ IdealMaskThreshold
    \/ IdealMaskWeight

(***************************************************************************)
(* Specifications, one per subsystem                                       *)
(***************************************************************************)
InitTrainer == TrainerInit /\ WsjOff /\ MusdbOff /\ TransformOff /\ DptnetOff /\ MaskOff

SpecTrainer == InitTrainer /\ [][TrainerNext]_vars

InitWSJ0 == WsjInit /\ TrainerOff /\ MusdbOff /\ TransformOff /\ DptnetOff /\ MaskOff

SpecWSJ0 == InitWSJ0 /\ [][WsjNext]_vars

InitMUSDB == MusdbInit /\ TrainerOff /\ WsjOff /\ TransformOff /\ DptnetOff /\ MaskOff

SpecMUSDB == InitMUSDB /\ [][MusdbNext]_vars

InitTransform == TransformInit /\ TrainerOff /\ WsjOff /\ MusdbOff /\ DptnetOff /\ MaskOff

SpecTransform == InitTransform /\ [][TransformNext]_vars

InitPackage == PackageInit /\ TrainerOff /\ WsjOff /\ MusdbOff /\ TransformOff /\ MaskOff

SpecPackage == InitPackage /\ [][PackageNext]_vars

InitForward == ForwardInit /\ TrainerOff /\ WsjOff /\ MusdbOff /\ TransformOff /\ MaskOff

SpecForward == InitForward /\ [][ForwardNext]_vars

InitUmx == UmxInit /\ TrainerOff /\ WsjOff /\ MusdbOff /\ TransformOff /\ MaskOff

SpecUmx == InitUmx /\ [][UmxNext]_vars

InitMask ==
    MaskInit /\ TrainerOff /\ WsjOff /\ MusdbOff /\ TransformOff /\ DptnetOff

SpecMask == InitMask /\ [][MaskNext]_vars

(***************************************************************************)
(* Claims about the trainers                                               *)
(***************************************************************************)
Constructed == pc \in Alive \cup {"exit"}
Resumed == args.continue_from # ""

\* the checkpoint file whose existence a fresh _reset checks
Guarded == IF kind = "ORPIT" THEN last_pth ELSE best_pth

\* C1: ORPITTrainer resume is continuous. last.pth always holds epoch = e + 1
\* for the last epoch e whose save_model ran, together with the train_loss
\* array of the saving trainer; a trainer resumed from it starts at e + 1 with
\* train_loss[0..e] equal to the stored values; the epochs a process executes
\* are start_epoch, start_epoch + 1, ... with none skipped, so the first epoch
\* executed after a resume is the one following the last saved epoch.
C1_ResumeContinuous ==
    kind = "ORPIT" =>
        /\ Exists(last_pth) =>
            /\ last_pth[1].epoch = lastSaved + 1
            /\ \A i \in 0 .. lastSaved : last_pth[1].train_loss[i] \in TrainLossValues
        /\ (pc = "for" /\ writes > 0) => last_pth[1].train_loss = self.train_loss
        /\ Constructed =>
            /\ \A i \in 1 .. Len(ran) : ran[i] = self.start_epoch + i - 1
            /\ Resumed =>
                /\ self.start_epoch + writes = lastSaved + 1
                /\ \A i \in 0 .. self.start_epoch - 1 :
                    /\ self.train_loss[i] = last_pth[1].train_loss[i]
                    /\ self.train_loss[i] \in TrainLossValues

C1_Witness ==
    /\ kind = "ORPIT"
    /\ Resumed
    /\ pc = "for"
    /\ self.start_epoch >= 1
    /\ Len(ran) >= 1
    /\ ran[1] = lastSaved
    /\ writes >= 1

\* C2: a fresh _reset (no continue_from) raises ValueError exactly when the
\* guarded checkpoint exists and overwrite is false; then no epoch runs and no
\* checkpoint is written. Otherwise it sets start_epoch = 0 (SingleTargetTrainer:
\* best_loss = prev_loss = infinity, no_improvement = 0). With continue_from the
\* existence check is never evaluated, so ValueError is never raised.
C2_OverwriteGuard ==
    /\ pc = "ValueError" =>
        /\ ~Resumed
        /\ ran = <<>>
        /\ writes = 0
    /\ (~Resumed /\ pc \in {"main", "ValueError", "RuntimeError", "FileNotFoundError"}) =>
        /\ pc \in {"main", "ValueError"}
        /\ pc = "ValueError" <=> (Exists(Guarded) /\ args.overwrite = 0)
        /\ pc = "main" =>
            /\ self.start_epoch = 0
            /\ kind = "SingleTarget" =>
                /\ self.best_loss = Infinity
                /\ self.prev_loss = Infinity
                /\ self.no_improvement = 0

C2_Witness ==
    /\ pc = "ValueError"
    /\ kind = "SingleTarget"
    /\ Exists(best_pth)
    /\ args.overwrite = 0

\* C3: right after a SingleTargetTrainer was constructed with continue_from,
\* start_epoch, best_loss and no_improvement are those of the checkpoint,
\* train_loss and valid_loss agree with it on epochs 0..start_epoch-1, and
\* prev_loss is the validation loss of epoch start_epoch-1; best_loss is not
\* reset to infinity.
C3_ResumeEarlyStopping ==
    (kind = "SingleTarget" /\ pc = "main" /\ Resumed) =>
        LET package == ContinueFile(args)[1]
        IN  /\ self.start_epoch = package.epoch
            /\ self.start_epoch >= 1
            /\ self.best_loss = package.best_loss
            /\ self.best_loss # Infinity
            /\ self.no_improvement = package.no_improvement
            /\ \A i \in 0 .. self.start_epoch - 1 :
                /\ self.train_loss[i] = package.train_loss[i]
                /\ self.valid_loss[i] = package.valid_loss[i]
                /\ self.valid_loss[i] \in ValidLossValues
            /\ self.prev_loss = self.valid_loss[self.start_epoch - 1]

C3_Witness ==
    /\ kind = "SingleTarget"
    /\ pc = "main"
    /\ Resumed
    /\ self.no_improvement >= 1
    /\ self.best_loss < self.prev_loss

\* C4: ORPITTrainer.run executes exactly the epochs start_epoch..epochs-1, each
\* once, before it returns; the number of checkpointed epochs since the fresh
\* construction never exceeds the epoch budget of a constructed trainer; and a
\* trainer resumed from a checkpoint whose epoch equals args.epochs executes
\* no epoch and writes no checkpoint.
C4_EpochBudget ==
    (kind = "ORPIT" /\ Constructed) =>
        /\ self.start_epoch <= self.epochs
        /\ Len(ran) <= self.epochs - self.start_epoch
        /\ pc = "exit" =>
            ran = [i \in 1 .. self.epochs - self.start_epoch |-> self.start_epoch + i - 1]
        /\ completed <= self.epochs
        /\ writes <= Len(ran)
        /\ (Resumed /\ self.start_epoch = self.epochs) =>
            /\ ran = <<>>
            /\ writes = 0

C4_Witness ==
    /\ kind = "ORPIT"
    /\ pc = "exit"
    /\ Resumed
    /\ Len(ran) >= 1
    /\ completed = self.epochs

C4_WitnessNothingToDo ==
    /\ kind = "ORPIT"
    /\ pc = "exit"
    /\ Resumed
    /\ self.start_epoch = self.epochs

(***************************************************************************)
(* Claims about the WSJ0 datasets                                          *)
(***************************************************************************)
Segmenting == ds.cls \in {"WaveDataset", "WaveTrainDataset"}

Step == ds.samples - Overlap(ds.samples, ds.overlap)

\* the starts of the windows of an utterance of T_total samples
WindowStarts(T_total) ==
    IF Step > 0
    THEN {s \in 0 .. T_total : s % Step = 0 /\ s + ds.samples <= T_total}
    ELSE {}

RECURSIVE TotalWindows(_)
TotalWindows(n) == IF n = 0 THEN 0 ELSE TotalWindows(n - 1) + Cardinality(WindowStarts(wav[n]))

SameWindow(d, start, end) ==
    /\ d.mixture.start = start
    /\ d.mixture.end = end
    /\ Len(d.sources) = ds.n_sources
    /\ \A j \in 1 .. ds.n_sources :
        /\ d.sources[j].key = j
        /\ d.sources[j].start = start
        /\ d.sources[j].end = end

\* C5: every item of a WaveDataset / WaveTrainDataset holds one window
\* [start, end) shared by the mixture and the sources s1..s<n_sources>, with
\* start a multiple of samples - overlap, end - start = samples and
\* 0 <= start < end <= T_total; __getitem__ returns mixture (1, samples) and
\* sources (n_sources, samples); and once constructed, the items of utterance
\* i are exactly its windows, so len(dataset) is the total number of windows.
C5_Segmentation ==
    (Segmenting /\ ds_pc # "off") =>
        /\ \A k \in 1 .. Len(json_data) :
            LET d == json_data[k]
            IN  /\ Step > 0
                /\ d.mixture.start % Step = 0
                /\ d.mixture.end - d.mixture.start = ds.samples
                /\ 0 <= d.mixture.start
                /\ d.mixture.start < d.mixture.end
                /\ d.mixture.end <= wav[d.ID]
                /\ SameWindow(d, d.mixture.start, d.mixture.end)
        /\ item # NoItem =>
            /\ item.mixture = <<1, ds.samples>>
            /\ item.sources = <<ds.n_sources, ds.samples>>
        /\ ds_pc = "ready" =>
            /\ DatasetLen = TotalWindows(Len(wav))
            /\ \A i \in 1 .. Len(wav) :
                {json_data[k].mixture.start : k \in {k \in 1 .. Len(json_data) : json_data[k].ID = i}}
                    = WindowStarts(wav[i])

C5_Witness ==
    /\ Segmenting
    /\ ds_pc = "ready"
    /\ item # NoItem
    /\ DatasetLen >= 2
    /\ \E i \in 1 .. Len(wav) : wav[i] > 0 /\ WindowStarts(wav[i]) = {}
    /\ \E i \in 1 .. Len(wav) :
        /\ Cardinality(WindowStarts(wav[i])) >= 2
        /\ \A s \in WindowStarts(wav[i]) : s + ds.samples < wav[i]

EvalEnd(T_total) == IF ds.max_samples = None THEN T_total ELSE Min(T_total, ds.max_samples)

\* C6: a constructed WaveEvalDataset holds exactly one item per line of the
\* list file, in list order, with window [0, min(T_total, max_samples)) (or
\* [0, T_total) when max_samples is None) for the mixture and every source;
\* nothing of what the parent constructor built is left; __getitem__ returns
\* the bare utterance ID as segment_ID.
C6_EvalDataset ==
    (ds.cls = "WaveEvalDataset" /\ ds_pc = "ready") =>
        /\ DatasetLen = Len(wav)
        /\ \A i \in 1 .. Len(json_data) :
            /\ json_data[i].ID = i
            /\ SameWindow(json_data[i], 0, EvalEnd(wav[i]))
        /\ item # NoItem =>
            /\ Len(item.segment_ID) = 1
            /\ item.segment_ID[1] \in 1 .. Len(wav)
            /\ item.mixture = <<1, EvalEnd(wav[item.segment_ID[1]])>>
            /\ item.sources = <<ds.n_sources, EvalEnd(wav[item.segment_ID[1]])>>

C6_Witness ==
    /\ ds.cls = "WaveEvalDataset"
    /\ ds_pc = "ready"
    /\ Len(wav) = 2
    /\ wav[1] > DefaultSamples
    /\ wav[2] < ds.max_samples
    /\ ds.max_samples = DefaultSamples
    /\ item # NoItem
    /\ item.segment_ID = <<1>>

(***************************************************************************)
(* Claims about the MUSDB18 datasets                                       *)
(***************************************************************************)
\* C7: for every valid idx and every list-valued target,
\* WaveDataset.__getitem__ returns (mixture, target, latent, name, sources,
\* scale) with sources the tensor of the len(self.sources) sources of the
\* segment, whatever self.sources is.
C7_ReturnsSixTuple ==
    (mus.cls = "WaveDataset" /\ out.called /\ mus.target.is_list) =>
        /\ out.status = "ok"
        /\ out.returned = <<"mixture", "target", "latent", "name", "sources", "scale">>
        /\ Len(out.sources) = 2
        /\ out.sources[1] = Len(mus.sources)

\* C8: a constructed SpectrogramEvalDataset holds one json_data entry per
\* validation track (start = 0, samples = min(max_samples, track_samples)),
\* and __getitem__(idx) finds every key and attribute it reads, so it returns
\* (mixture, target, latent, source_names, scales).
C8_EvalConsistent ==
    mus.cls = "SpectrogramEvalDataset" =>
        /\ mus_pc = "ready" =>
            /\ Len(mus_json) = Len(track_samples)
            /\ \A i \in 1 .. Len(mus_json) :
                mus_json[i] = [songID |-> i - 1, start |-> 0,
                               samples |-> Min(mus.max_samples, track_samples[i])]
        /\ out.called =>
            /\ out.status = "ok"
            /\ out.returned = <<"mixture", "target", "latent", "source_names", "scales">>

(***************************************************************************)
(* Claims about Segment1d / OverlapAdd1d                                   *)
(***************************************************************************)
\* C9: for n_frames >= chunk_size, Segment1d.forward returns without error a
\* tensor of shape (batch_size, num_features, S, chunk_size) with
\* S = (n_frames - chunk_size)//hop_size + 1 and
\* output[b, f, s, k] = input[b, f, s*hop_size + k]; the frames from
\* (S-1)*hop_size + chunk_size on appear in no chunk.
C9_Segment ==
    (layer.cls = "Segment1d" /\ input.shape[3] >= layer.chunk_size) =>
        /\ fpc # "RuntimeError"
        /\ fpc = "returned" =>
            LET n_frames == input.shape[3]
                K == layer.chunk_size
                P == layer.hop_size
                S == (n_frames - K) \div P + 1
            IN  /\ output.shape = <<input.shape[1], input.shape[2], S, K>>
                /\ Len(output.data) = input.shape[1] * input.shape[2] * S * K
                /\ \A b \in 0 .. input.shape[1] - 1, f \in 0 .. input.shape[2] - 1 :
                    /\ \A s \in 0 .. S - 1, k \in 0 .. K - 1 :
                        Get(output, <<b, f, s, k>>) = Get(input, <<b, f, s * P + k>>)
                    /\ \A t \in (S - 1) * P + K .. n_frames - 1 :
                        \A n \in DOMAIN output.data : output.data[n] # Get(input, <<b, f, t>>)

C9_Witness ==
    /\ layer.cls = "Segment1d"
    /\ fpc = "returned"
    /\ layer.hop_size >= 2
    /\ output.shape[3] >= 2
    /\ input.shape[3] > (output.shape[3] - 1) * layer.hop_size + layer.chunk_size
    /\ input.shape[1] >= 2
    /\ input.shape[2] >= 2

\* C10: OverlapAdd1d.forward returns without error, for an input of shape
\* (batch_size, num_features, S, chunk_size), a tensor of shape
\* (batch_size, num_features, (S-1)*hop_size + chunk_size) with output[b, f, t]
\* the sum of input[b, f, s, k] over all (s, k) with s*hop_size + k = t; the
\* chunk length is the input's, whatever chunk_size the module was built with.
C10_OverlapAdd ==
    layer.cls = "OverlapAdd1d" =>
        /\ fpc # "RuntimeError"
        /\ fpc = "returned" =>
            LET S == input.shape[3]
                K == input.shape[4]
                P == layer.hop_size
                n_frames == (S - 1) * P + K
            IN  /\ output.shape = <<input.shape[1], input.shape[2], n_frames>>
                /\ Len(output.data) = input.shape[1] * input.shape[2] * n_frames
                /\ \A b \in 0 .. input.shape[1] - 1, f \in 0 .. input.shape[2] - 1,
                      t \in 0 .. n_frames - 1 :
                        Get(output, <<b, f, t>>) =
                            SetToBag({<<b, f, s, t - s * P>> :
                                        s \in {s \in 0 .. S - 1 : 0 <= t - s * P /\ t - s * P < K}})

C10_Witness ==
    /\ layer.cls = "OverlapAdd1d"
    /\ fpc = "returned"
    /\ layer.chunk_size # input.shape[4]
    /\ input.shape[3] >= 2
    /\ layer.hop_size < input.shape[4]
    /\ \E n \in DOMAIN output.data : BagCardinality(output.data[n]) >= 2
    /\ input.shape[1] >= 2
    /\ input.shape[2] >= 2

(***************************************************************************)
(* Claims about DPTNet                                                     *)
(***************************************************************************)
Padded == npc \notin {"forward", "off"}

\* C11: DPTNet.extract_latent on an input of T >= kernel_size samples computes
\* 0 <= padding < stride with (T + padding - kernel_size) % stride = 0,
\* padding_left = padding // 2 and padding_right = padding - padding_left,
\* does not raise, and returns an output of exactly T samples.
C11_KeepsLength ==
    (net.cls = "DPTNet" /\ sig.T >= net.kernel_size /\ Padded) =>
        LET padding == sig.padding_left + sig.padding_right
        IN  /\ 0 <= padding
            /\ padding < net.stride
            /\ (sig.T + padding - net.kernel_size) % net.stride = 0
            /\ sig.padding_left = padding \div 2
            /\ sig.padding_right = padding - sig.padding_left
            /\ npc # "RuntimeError"
            /\ npc = "returned" => sig.len = sig.T

\* C12: Separator.forward on an input of n_frames >= 1 frames (shorter than
\* chunk_size included) pads it so that n_frames + padding - chunk_size is a
\* non-negative multiple of hop_size, segments it without an error, gets
\* n_frames + padding frames back from overlap-add, and returns n_frames frames.
C12_SeparatorKeepsFrames ==
    (net.cls = "Separator" /\ npc # "separator") =>
        LET padding == sep.padding_left + sep.padding_right
        IN  /\ sep.n_frames + padding - net.chunk_size >= 0
            /\ (sep.n_frames + padding - net.chunk_size) % net.hop_size = 0
            /\ npc # "RuntimeError"
            /\ npc = "overlap added" => sep.shape = <<sep.n_frames + padding>>
            /\ npc = "returned" => sep.shape = <<sep.n_frames>>

\* C13: for a DPTNet m that was constructed, build_model on a checkpoint
\* holding m.get_package() returns a model (no KeyError or other exception)
\* whose get_package() equals m's; the package holds the resolved stride and
\* sep_hop_size and None for the enc_nonlinear / window_fn the constructor
\* ignores; saving the rebuilt model's package and building again changes
\* nothing.
C13_PackageRoundTrip ==
    npc \in {"saved", "built", "saved again", "built again", "build failed"} =>
        /\ npc # "build failed"
        /\ model_path[1] = GetPackage(net)
        /\ model_path[1].stride # None
        /\ model_path[1].sep_hop_size # None
        /\ ~UsesEncNonlinear(ctor) => model_path[1].enc_nonlinear = NoneStr
        /\ ~UsesWindowFn(ctor) => model_path[1].window_fn = NoneStr
        /\ npc \in {"built", "built again"} =>
            /\ rebuilt.raised = ""
            /\ GetPackage(rebuilt) = GetPackage(net)

C13_Witness ==
    /\ npc = "built again"
    /\ ctor.stride = None
    /\ ctor.sep_hop_size = None
    /\ ~UsesEncNonlinear(ctor)
    /\ "enc_nonlinear" \in DOMAIN ctor.kwargs
    /\ ctor.kwargs["enc_nonlinear"] # NoneStr
    /\ UsesWindowFn(ctor)

(***************************************************************************)
(* Claims about OpenUnmix                                                  *)
(***************************************************************************)
\* C14: for an OpenUnmix m that was constructed, build_model on a checkpoint
\* holding m.get_config() returns a model whose get_config() equals m's, for
\* every value of in_channels, hidden_channels, num_layers, n_bins, max_bin,
\* dropout, causal, rnn_type and eps.
C14_ConfigRoundTrip ==
    npc \in {"built", "build failed"} =>
        /\ npc = "built"
        /\ GetConfig(rebuilt) = GetConfig(net)

(***************************************************************************)
(* Claims about IdealMaskSpectrogramDataset                                *)
(***************************************************************************)
\* C15: the threshold_weight an item returns is 1 at exactly the bins whose
\* mixture amplitude exceeds the level `threshold` dB below the item's maximum
\* log-amplitude, 10^((max_log_amplitude - threshold)/20), and 0 elsewhere.
C15_ThresholdWeight ==
    mask_pc = "returned" =>
        \A i \in DOMAIN mixture_amplitude :
            threshold_weight[i] =
                IF Above(mixture_amplitude[i], ThresholdLevel(mixture_amplitude, threshold))
                THEN 1 ELSE 0

====
